---- MODULE Spec2Model ----
(***************************************************************************)
(* Wire routing over an occupancy grid: the obstacle map builder           *)
(* (generic_obstacle_detector.py), the PathFinder (pathfinding.py) and the *)
(* SmartWireRouter that drives them (smart_router.py).                     *)
(*                                                                         *)
(* A point is <<x, y>>.  An array is [shape |-> <<height, width>>,         *)
(* data |-> its rows], a row being the sequence of its bytes; At(a, y, x)  *)
(* is numpy's a[y, x] for 0-based y and x.                                 *)
(* A* costs are carried in tenths: 1.0 is 10 and 1.4 is 14, the heuristic  *)
(* counts straight moves.  The sums of 1.0 and 1.4 the search forms compare in   *)
(* binary floating point exactly as their tenths do for up to four moves;  *)
(* beyond that two sums of equal tenths may differ in the last bit.        *)
(***************************************************************************)
EXTENDS Integers, Sequences, FiniteSets, TLC

\* ------------------------------------------------------------------ bounds
Width == 3
Height == 3
MaxInk == 2
MaxDilation == 2
MaxPadding == 1
MaxPathLen == 4
MaxObjects == 2

\* --------------------------------------------------------- program constants
FREE == 0
OBSTACLE == 255
StraightCost == 10
DiagonalCost == 14

\* ------------------------------------------------------------------ helpers
Abs(n) == IF n < 0 THEN -n ELSE n

Last(s) == s[Len(s)]

Reverse(s) == [i \in 1..Len(s) |-> s[Len(s) + 1 - i]]

\* Python's range(a, b + direction, direction): a, a + direction, ..., b.
RangeIncl(a, b, direction) ==
    IF (b - a) * direction < 0 THEN <<>>
    ELSE [i \in 1..(Abs(b - a) + 1) |-> a + direction * (i - 1)]

\* numpy's array[y, x].
At(array, y, x) == array.data[y + 1][x + 1]

\* ------------------------------------------------------------------ PathFinder
PathFinder(obstacle_map) ==
    [obstacle_map |-> obstacle_map,
     height |-> obstacle_map.shape[1],
     width |-> obstacle_map.shape[2]]

heuristic(a, b) == Abs(a[1] - b[1]) + Abs(a[2] - b[2])

directions ==
    << <<-1, -1>>, <<-1, 0>>, <<-1, 1>>, <<0, -1>>,
       <<0, 1>>, <<1, -1>>, <<1, 0>>, <<1, 1>> >>

\* A bounds check that forgets the obstacle test.
InBoundsOnly(pf, p) ==
    /\ 0 <= p[1] /\ p[1] < pf.width
    /\ 0 <= p[2] /\ p[2] < pf.height

InBoundsFree(pf, p) ==
    /\ 0 <= p[1] /\ p[1] < pf.width
    /\ 0 <= p[2] /\ p[2] < pf.height
    /\ At(pf.obstacle_map, p[2], p[1]) = FREE

\* The 4-directional variant the code's comment mentions.
get_neighbors_4(pf, pos) ==
    LET cand == << <<pos[1] - 1, pos[2]>>, <<pos[1], pos[2] - 1>>,
                   <<pos[1], pos[2] + 1>>, <<pos[1] + 1, pos[2]>> >>
    IN SelectSeq(cand, LAMBDA n : InBoundsFree(pf, n))

get_neighbors(pf, pos) ==
    LET cand == [i \in 1..Len(directions) |->
                    <<pos[1] + directions[i][1], pos[2] + directions[i][2]>>]
    IN SelectSeq(cand, LAMBDA n : InBoundsFree(pf, n))

\* Heap entries are <<f, node>>; Python compares them as tuples.
EntryLess(a, b) ==
    \/ a[1] < b[1]
    \/ a[1] = b[1] /\ a[2][1] < b[2][1]
    \/ a[1] = b[1] /\ a[2][1] = b[2][1] /\ a[2][2] < b[2][2]

\* Index of the entry heapq.heappop removes: a smallest one.
HeapMinIndex(open_set) ==
    CHOOSE i \in 1..Len(open_set) :
        \A j \in 1..Len(open_set) : ~EntryLess(open_set[j], open_set[i])

RemoveAt(s, i) == [k \in 1..(Len(s) - 1) |-> IF k < i THEN s[k] ELSE s[k + 1]]

\* A move cost that counts a diagonal as its two axis moves.
move_cost_taxicab(current, neighbor) ==
    StraightCost * (Abs(neighbor[1] - current[1]) + Abs(neighbor[2] - current[2]))

move_cost(current, neighbor) ==
    IF Abs(neighbor[1] - current[1]) + Abs(neighbor[2] - current[2]) = 2
    THEN DiagonalCost ELSE StraightCost

\* A relaxation that also takes a neighbour whose score it only equals.
RECURSIVE a_star_relax_on_ties(_, _, _, _)
a_star_relax_on_ties(nbrs, current, goal, st) ==
    IF nbrs = <<>> THEN st
    ELSE CHOOSE relaxed \in
           {LET neighbor == Head(nbrs)
                tentative_g_score == s.g_score[current] + move_cost(current, neighbor)
            IN IF neighbor \notin DOMAIN s.g_score
                  \/ tentative_g_score <= s.g_score[neighbor]
               THEN a_star_relax_on_ties(Tail(nbrs), current, goal,
                       [open_set |-> Append(s.open_set,
                             <<tentative_g_score + StraightCost * heuristic(neighbor, goal),
                               neighbor>>),
                        came_from |-> (neighbor :> current) @@ s.came_from,
                        g_score |-> (neighbor :> tentative_g_score) @@ s.g_score])
               ELSE a_star_relax_on_ties(Tail(nbrs), current, goal, s)
            : s \in {st}} : TRUE

\* The body of "for neighbor in get_neighbors(current)"; s is the state the
\* iteration starts from, evaluated once.
RECURSIVE a_star_relax(_, _, _, _)
a_star_relax(nbrs, current, goal, st) ==
    IF nbrs = <<>> THEN st
    ELSE CHOOSE relaxed \in
           {LET neighbor == Head(nbrs)
                tentative_g_score == s.g_score[current] + move_cost(current, neighbor)
            IN IF neighbor \notin DOMAIN s.g_score
                  \/ tentative_g_score < s.g_score[neighbor]
               THEN a_star_relax(Tail(nbrs), current, goal,
                       [open_set |-> Append(s.open_set,
                             <<tentative_g_score + StraightCost * heuristic(neighbor, goal),
                               neighbor>>),
                        came_from |-> (neighbor :> current) @@ s.came_from,
                        g_score |-> (neighbor :> tentative_g_score) @@ s.g_score])
               ELSE a_star_relax(Tail(nbrs), current, goal, s)
            : s \in {st}} : TRUE

\* "while current in came_from: path.append(current); current = came_from[current]"
RECURSIVE reconstruct(_, _)
reconstruct(came_from, current) ==
    IF current \in DOMAIN came_from
    THEN <<current>> \o reconstruct(came_from, came_from[current])
    ELSE <<>>

RECURSIVE a_star_loop(_, _, _, _)
a_star_loop(pf, start, goal, st) ==
    IF st.open_set = <<>> THEN <<>>
    ELSE LET i == HeapMinIndex(st.open_set)
             current == st.open_set[i][2]
             popped == [st EXCEPT !.open_set = RemoveAt(st.open_set, i)]
         IN IF current = goal
            THEN Reverse(reconstruct(st.came_from, current) \o <<start>>)
            ELSE a_star_loop(pf, start, goal,
                    a_star_relax(get_neighbors(pf, current), current, goal, popped))

a_star(pf, start, goal) ==
    a_star_loop(pf, start, goal,
        [open_set |-> << <<0, start>> >>,
         came_from |-> <<>>,
         g_score |-> (start :> 0)])

\* A leg test that looks at the range only.
BlockedOutOfRangeOnly(pf, x, y) ==
    \/ x < 0 \/ x >= pf.width
    \/ y < 0 \/ y >= pf.height

\* "x out of range or y out of range or obstacle_map[y, x] == 255"
Blocked(pf, x, y) ==
    \/ x < 0 \/ x >= pf.width
    \/ y < 0 \/ y >= pf.height
    \/ At(pf.obstacle_map, y, x) = OBSTACLE

\* An Optional[List]: None is [none |-> TRUE, path |-> <<>>].
NoRoute == [none |-> TRUE, path |-> <<>>]

SomeRoute(path) == [none |-> FALSE, path |-> path]

\* Python truthiness of an Optional[List]: neither None nor the empty list.
Truthy(route) == ~route.none /\ route.path # <<>>

\* An L-route whose second leg starts at the corner again.
route_horizontal_first_corner_twice(pf, start_pt, end_pt) ==
    LET x1 == start_pt[1]
        y1 == start_pt[2]
        x2 == end_pt[1]
        y2 == end_pt[2]
        xs == IF x1 # x2 THEN RangeIncl(x1, x2, IF x2 > x1 THEN 1 ELSE -1) ELSE <<>>
        ys == IF y1 # y2
              THEN RangeIncl(y1, y2, IF y2 > y1 THEN 1 ELSE -1)
              ELSE <<>>
        horizontal == IF x1 # x2 THEN [i \in 1..Len(xs) |-> <<xs[i], y1>>]
                      ELSE << <<x1, y1>> >>
        vertical == [i \in 1..Len(ys) |-> <<x2, ys[i]>>]
    IN IF \E i \in 1..Len(xs) : Blocked(pf, xs[i], y1) THEN NoRoute
       ELSE IF \E i \in 1..Len(ys) : Blocked(pf, x2, ys[i]) THEN NoRoute
       ELSE SomeRoute(horizontal \o vertical)

route_horizontal_first(pf, start_pt, end_pt) ==
    LET x1 == start_pt[1]
        y1 == start_pt[2]
        x2 == end_pt[1]
        y2 == end_pt[2]
        xs == IF x1 # x2 THEN RangeIncl(x1, x2, IF x2 > x1 THEN 1 ELSE -1) ELSE <<>>
        ys == IF y1 # y2
              THEN LET direction == IF y2 > y1 THEN 1 ELSE -1
                   IN RangeIncl(y1 + direction, y2, direction)
              ELSE <<>>
        horizontal == IF x1 # x2 THEN [i \in 1..Len(xs) |-> <<xs[i], y1>>]
                      ELSE << <<x1, y1>> >>
        vertical == [i \in 1..Len(ys) |-> <<x2, ys[i]>>]
    IN IF \E i \in 1..Len(xs) : Blocked(pf, xs[i], y1) THEN NoRoute
       ELSE IF \E i \in 1..Len(ys) : Blocked(pf, x2, ys[i]) THEN NoRoute
       ELSE SomeRoute(horizontal \o vertical)

route_vertical_first(pf, start_pt, end_pt) ==
    LET x1 == start_pt[1]
        y1 == start_pt[2]
        x2 == end_pt[1]
        y2 == end_pt[2]
        ys == IF y1 # y2 THEN RangeIncl(y1, y2, IF y2 > y1 THEN 1 ELSE -1) ELSE <<>>
        xs == IF x1 # x2
              THEN LET direction == IF x2 > x1 THEN 1 ELSE -1
                   IN RangeIncl(x1 + direction, x2, direction)
              ELSE <<>>
        vertical == IF y1 # y2 THEN [i \in 1..Len(ys) |-> <<x1, ys[i]>>]
                    ELSE << <<x1, y1>> >>
        horizontal == [i \in 1..Len(xs) |-> <<xs[i], y2>>]
    IN IF \E i \in 1..Len(ys) : Blocked(pf, x1, ys[i]) THEN NoRoute
       ELSE IF \E i \in 1..Len(xs) : Blocked(pf, xs[i], y2) THEN NoRoute
       ELSE SomeRoute(vertical \o horizontal)

manhattan_routing(pf, start, goal) ==
    LET route1 == route_horizontal_first(pf, start, goal)
        route2 == route_vertical_first(pf, start, goal)
    IN IF Truthy(route1) /\ Truthy(route2)
       THEN IF Len(route1.path) <= Len(route2.path) THEN route1.path ELSE route2.path
       ELSE IF Truthy(route1) THEN route1.path
       ELSE IF Truthy(route2) THEN route2.path
       ELSE a_star(pf, start, goal)

RECURSIVE line_walk(_, _, _, _, _, _, _, _, _, _)

\* A walk that leaves the loop on arrival before it tests the cell.
line_walk_open_end(pf, x, y, err, x1, y1, dx, dy, x_step, y_step) ==
    IF x = x1 /\ y = y1 THEN TRUE
    ELSE IF Blocked(pf, x, y) THEN FALSE
    ELSE LET e2 == 2 * err
             stepx == e2 > -dy
             stepy == e2 < dx
         IN line_walk(pf,
                IF stepx THEN x + x_step ELSE x,
                IF stepy THEN y + y_step ELSE y,
                err - (IF stepx THEN dy ELSE 0) + (IF stepy THEN dx ELSE 0),
                x1, y1, dx, dy, x_step, y_step)

\* The "while True" walk of _can_connect_directly from (x, y) with error term err.
line_walk(pf, x, y, err, x1, y1, dx, dy, x_step, y_step) ==
    IF Blocked(pf, x, y) THEN FALSE
    ELSE IF x = x1 /\ y = y1 THEN TRUE
    ELSE LET e2 == 2 * err
             stepx == e2 > -dy
             stepy == e2 < dx
         IN line_walk(pf,
                IF stepx THEN x + x_step ELSE x,
                IF stepy THEN y + y_step ELSE y,
                err - (IF stepx THEN dy ELSE 0) + (IF stepy THEN dx ELSE 0),
                x1, y1, dx, dy, x_step, y_step)

can_connect_directly(pf, start, end) ==
    LET x0 == start[1]
        y0 == start[2]
        x1 == end[1]
        y1 == end[2]
        dx == Abs(x1 - x0)
        dy == Abs(y1 - y0)
    IN line_walk(pf, x0, y0, dx - dy, x1, y1, dx, dy,
                 IF x0 < x1 THEN 1 ELSE -1, IF y0 < y1 THEN 1 ELSE -1)

\* The cells _can_connect_directly samples from (x, y) on when none of them
\* stops the walk: the stepping of its "while True" alone.
RECURSIVE line_cells(_, _, _, _, _, _, _, _, _)
line_cells(x, y, err, x1, y1, dx, dy, x_step, y_step) ==
    IF x = x1 /\ y = y1 THEN << <<x, y>> >>
    ELSE LET e2 == 2 * err
             stepx == e2 > -dy
             stepy == e2 < dx
         IN << <<x, y>> >> \o
            line_cells(IF stepx THEN x + x_step ELSE x,
                       IF stepy THEN y + y_step ELSE y,
                       err - (IF stepx THEN dy ELSE 0) + (IF stepy THEN dx ELSE 0),
                       x1, y1, dx, dy, x_step, y_step)

digital_line(start, end) ==
    LET dx == Abs(end[1] - start[1])
        dy == Abs(end[2] - start[2])
    IN line_cells(start[1], start[2], dx - dy, end[1], end[2], dx, dy,
                  IF start[1] < end[1] THEN 1 ELSE -1,
                  IF start[2] < end[2] THEN 1 ELSE -1)

\* A look-ahead that stops at the first point it can reach.
look_ahead_one_point(pf, path, i, j) ==
    IF j < Len(path) /\ can_connect_directly(pf, path[i + 1], path[j + 1])
    THEN j + 1
    ELSE j

\* The inner "while j < len(path)": the first j at which the scan stops.
RECURSIVE look_ahead(_, _, _, _)
look_ahead(pf, path, i, j) ==
    IF j < Len(path) /\ can_connect_directly(pf, path[i + 1], path[j + 1])
    THEN look_ahead(pf, path, i, j + 1)
    ELSE j

\* The outer "while i < len(path) - 1"; i and j are the code's 0-based indices.
RECURSIVE optimize_loop(_, _, _, _)
optimize_loop(pf, path, i, optimized) ==
    IF i < Len(path) - 1
    THEN LET j == look_ahead(pf, path, i, i + 1)
         IN IF j - 1 > i
            THEN optimize_loop(pf, path, j - 1, Append(optimized, path[j]))
            ELSE optimize_loop(pf, path, i + 1, Append(optimized, path[i + 2]))
    ELSE optimized

\* An optimize_path whose output list starts empty instead of at path[0].
optimize_path_unseeded(pf, path) ==
    IF Len(path) < 3 THEN path
    ELSE LET optimized == optimize_loop(pf, path, 0, <<>>)
         IN IF Last(optimized) # Last(path)
            THEN Append(optimized, Last(path))
            ELSE optimized

\* An optimize_path that tests the line of sight of a two-point path and
\* answers a blocked one with the empty path.
optimize_path_tested(pf, path) ==
    IF Len(path) < 3
    THEN IF Len(path) = 2 /\ ~can_connect_directly(pf, path[1], path[2])
         THEN <<>>
         ELSE path
    ELSE LET optimized == optimize_loop(pf, path, 0, <<path[1]>>)
         IN IF Last(optimized) # Last(path)
            THEN Append(optimized, Last(path))
            ELSE optimized

\* An optimize_path that appends the goal without looking at the last waypoint.
optimize_path_goal_appended(pf, path) ==
    IF Len(path) < 3 THEN path
    ELSE Append(optimize_loop(pf, path, 0, <<path[1]>>), Last(path))

optimize_path(pf, path) ==
    IF Len(path) < 3 THEN path
    ELSE LET optimized == optimize_loop(pf, path, 0, <<path[1]>>)
         IN IF Last(optimized) # Last(path)
            THEN Append(optimized, Last(path))
            ELSE optimized

find_best_path(pf, start, goal, prefer_manhattan) ==
    LET first == IF prefer_manhattan THEN manhattan_routing(pf, start, goal)
                 ELSE a_star(pf, start, goal)
        path == IF prefer_manhattan /\ first = <<>> THEN a_star(pf, start, goal)
                ELSE first
    IN IF path # <<>> THEN optimize_path(pf, path) ELSE path

\* -------------------------------------------------------- obstacle map builder
\* cv2.dilate with a size x size rectangle anchored at its centre
\* (size \div 2); cells beyond the border do not contribute.
dilate(src, size) ==
    LET anchor == size \div 2
        offs == (0..(size - 1)) \X (0..(size - 1))
    IN [src EXCEPT !.data =
          [r \in 1..src.shape[1] |->
             [c \in 1..src.shape[2] |->
                IF \E o \in offs :
                      LET y == (r - 1) + o[1] - anchor
                          x == (c - 1) + o[2] - anchor
                      IN /\ 0 <= y /\ y < src.shape[1]
                         /\ 0 <= x /\ x < src.shape[2]
                         /\ At(src, y, x) = OBSTACLE
                THEN OBSTACLE ELSE FREE]]]

\* The image None stands for an absent image.
NoImage == [absent |-> TRUE]

\* An image of zero rows and zero columns.
EmptyImage == [shape |-> <<0, 0>>, data |-> <<>>]

\* What a caller may pass in place of a proper image.
MalformedImages == {NoImage, EmptyImage}

\* create_obstacle_map: the image is taken after binarization (step 2), so its
\* cells are 255 where the drawing is dark and 0 elsewhere.
\* image.shape of an absent image raises AttributeError (step 1); OpenCV 4
\* rejects an image without pixels in step 1 (cvtColor) or step 2 (the
\* Gaussian blur of adaptiveThreshold), both asserting a non-empty source.
\* cv2.getStructuringElement rejects a kernel without cells: the anchor it
\* derives, (0, 0), is not inside an empty rectangle.
create_obstacle_map(image, dilation_size, safety_padding) ==
    IF image = NoImage
    THEN [error |-> "AttributeError", map |-> NoImage]
    ELSE IF image = EmptyImage
    THEN [error |-> "cv2.error", map |-> NoImage]
    ELSE IF dilation_size < 1
    THEN [error |-> "cv2.error", map |-> NoImage]
    ELSE LET dilated == dilate(image, dilation_size)
         IN [error |-> "none",
             map |-> IF safety_padding > 0
                     THEN dilate(dilated, safety_padding * 2 + 1)
                     ELSE dilated]

\* The "while True" walk of check_path_clearance: a cell outside the map is
\* passed over.
RECURSIVE clearance_walk(_, _, _, _, _, _, _, _, _, _)
clearance_walk(obstacle_map, x, y, err, x2, y2, dx, dy, x_step, y_step) ==
    IF /\ 0 <= y /\ y < obstacle_map.shape[1]
       /\ 0 <= x /\ x < obstacle_map.shape[2]
       /\ At(obstacle_map, y, x) = OBSTACLE
    THEN FALSE
    ELSE IF x = x2 /\ y = y2 THEN TRUE
    ELSE LET e2 == 2 * err
             stepx == e2 > -dy
             stepy == e2 < dx
         IN clearance_walk(obstacle_map,
                IF stepx THEN x + x_step ELSE x,
                IF stepy THEN y + y_step ELSE y,
                err - (IF stepx THEN dy ELSE 0) + (IF stepy THEN dx ELSE 0),
                x2, y2, dx, dy, x_step, y_step)

\* check_path_clearance on a detector whose obstacle_map is the given one
\* (NoImage while the detector has built none).
check_path_clearance(obstacle_map, start, end) ==
    IF obstacle_map = NoImage THEN TRUE
    ELSE LET dx == Abs(end[1] - start[1])
             dy == Abs(end[2] - start[2])
         IN clearance_walk(obstacle_map, start[1], start[2], dx - dy,
                           end[1], end[2], dx, dy,
                           IF start[1] < end[1] THEN 1 ELSE -1,
                           IF start[2] < end[2] THEN 1 ELSE -1)

\* ------------------------------------------------------------------ Router
None == [absent |-> TRUE]

Cells(shape) == (0..(shape[1] - 1)) \X (0..(shape[2] - 1))

count_nonzero(map) == Cardinality({c \in Cells(map.shape) : At(map, c[1], c[2]) # 0})

\* A free-pixel count that takes every cell of the map.
count_all(map) == Cardinality(Cells(map.shape))

count_zero(map) == Cardinality({c \in Cells(map.shape) : At(map, c[1], c[2]) = 0})

\* round(obstacle_pixels / (obstacle_pixels + free_pixels) * 100, 2), in hundredths.
coverage(obstacle_pixels, free_pixels) ==
    (2 * 10000 * obstacle_pixels + (obstacle_pixels + free_pixels))
        \div (2 * (obstacle_pixels + free_pixels))

\* An analyze_circuit that adds the new obstacles to the map it already holds
\* instead of replacing it.
analyze_circuit_merging(use_generic, old_map, image, dilation_size, safety_padding) ==
    IF use_generic
    THEN LET built == create_obstacle_map(image, dilation_size, safety_padding)
         IN IF built.error # "none"
            THEN [error |-> built.error, map |-> old_map, result |-> <<>>]
            ELSE LET merged ==
                         IF old_map = None THEN built.map
                         ELSE [built.map EXCEPT !.data =
                                 [r \in 1..built.map.shape[1] |->
                                    [c \in 1..built.map.shape[2] |->
                                       IF old_map.data[r][c] = OBSTACLE
                                       THEN OBSTACLE ELSE built.map.data[r][c]]]]
                     obstacle_pixels == count_nonzero(merged)
                     free_pixels == count_zero(merged)
                 IN [error |-> "none", map |-> merged,
                     result |-> [method |-> "generic",
                                 obstacle_pixels |-> obstacle_pixels,
                                 free_pixels |-> free_pixels,
                                 coverage |-> coverage(obstacle_pixels, free_pixels)]]
    ELSE [error |-> "AttributeError", map |-> old_map, result |-> <<>>]

\* An analyze_circuit that drops the map it holds when the builder fails.
analyze_circuit_clearing(use_generic, old_map, image, dilation_size, safety_padding) ==
    IF use_generic
    THEN LET built == create_obstacle_map(image, dilation_size, safety_padding)
         IN IF built.error # "none"
            THEN [error |-> built.error, map |-> None, result |-> <<>>]
            ELSE LET obstacle_pixels == count_nonzero(built.map)
                     free_pixels == count_zero(built.map)
                 IN [error |-> "none", map |-> built.map,
                     result |-> [method |-> "generic",
                                 obstacle_pixels |-> obstacle_pixels,
                                 free_pixels |-> free_pixels,
                                 coverage |-> coverage(obstacle_pixels, free_pixels)]]
    ELSE [error |-> "AttributeError", map |-> old_map, result |-> <<>>]

\* analyze_circuit: what it leaves in current_obstacle_map and what it returns.
analyze_circuit(use_generic, old_map, image, dilation_size, safety_padding) ==
    IF use_generic
    THEN LET built == create_obstacle_map(image, dilation_size, safety_padding)
         IN IF built.error # "none"
            THEN [error |-> built.error, map |-> old_map, result |-> <<>>]
            ELSE LET obstacle_pixels == count_nonzero(built.map)
                     free_pixels == count_zero(built.map)
                 IN [error |-> "none", map |-> built.map,
                     result |-> [method |-> "generic",
                                 obstacle_pixels |-> obstacle_pixels,
                                 free_pixels |-> free_pixels,
                                 coverage |-> coverage(obstacle_pixels, free_pixels)]]
    ELSE \* self.symbol_detector is never assigned
         [error |-> "AttributeError", map |-> old_map, result |-> <<>>]

\* The search of route_wire: manhattan_routing with its a_star retry, or a_star.
route_search(map, start_point, end_point, routing_style) ==
    LET finder == PathFinder(map)
        first == IF routing_style = "manhattan"
                 THEN manhattan_routing(finder, start_point, end_point)
                 ELSE a_star(finder, start_point, end_point)
    IN IF routing_style = "manhattan" /\ first = <<>>
       THEN a_star(finder, start_point, end_point)
       ELSE first

\* The end of route_wire: the path is optimized when there is one.
route_optimize(map, path) ==
    IF path # <<>> THEN optimize_path(PathFinder(map), path) ELSE path

\* A route_wire that returns the searched path without optimizing it.
route_path_raw(map, start_point, end_point, routing_style) ==
    LET finder == PathFinder(map)
        first == IF routing_style = "manhattan"
                 THEN manhattan_routing(finder, start_point, end_point)
                 ELSE a_star(finder, start_point, end_point)
    IN IF routing_style = "manhattan" /\ first = <<>>
       THEN a_star(finder, start_point, end_point)
       ELSE first

\* route_wire once the map is known to be set: the search and the optimization.
route_path(map, start_point, end_point, routing_style) ==
    LET finder == PathFinder(map)
        first == IF routing_style = "manhattan"
                 THEN manhattan_routing(finder, start_point, end_point)
                 ELSE a_star(finder, start_point, end_point)
        path == IF routing_style = "manhattan" /\ first = <<>>
                THEN a_star(finder, start_point, end_point)
                ELSE first
    IN IF path # <<>> THEN optimize_path(finder, path) ELSE path

\* A route_wire that answers a Router without a map with the empty path.
route_wire_silent(map, start_point, end_point, routing_style) ==
    IF map = None
    THEN [error |-> "none", path |-> <<>>]
    ELSE [error |-> "none",
          path |-> route_path(map, start_point, end_point, routing_style)]

route_wire(map, start_point, end_point, routing_style) ==
    IF map = None
    THEN [error |-> "ValueError", path |-> <<>>]
    ELSE [error |-> "none",
          path |-> route_path(map, start_point, end_point, routing_style)]

\* Long-hand square root: r is floor(sqrt(n) * 10^j) after j decimals and
\* rem is n * 10^(2j) - r^2; k decimals are still to be drawn.
RECURSIVE sqrt_digits(_, _, _)
sqrt_digits(r, rem, k) ==
    IF k = 0 THEN r
    ELSE LET fits(d) == 20 * r * d + d * d <= 100 * rem
             d == CHOOSE e \in 0..9 : fits(e) /\ (e = 9 \/ ~fits(e + 1))
         IN sqrt_digits(10 * r + d, 100 * rem - (20 * r * d + d * d), k - 1)

\* np.sqrt(dx**2 + dy**2) in millionths, rounded down.
segment_length(dx, dy) ==
    LET n == dx * dx + dy * dy
        whole == CHOOSE r \in 0..(Abs(dx) + Abs(dy)) :
                     r * r <= n /\ n < (r + 1) * (r + 1)
    IN sqrt_digits(whole, n - whole * whole, 6)

\* A turn test that counts every change of the direction vector.
is_turn_any_change(path, i) ==
    \/ path[i + 1][1] - path[i][1] # path[i + 2][1] - path[i + 1][1]
    \/ path[i + 1][2] - path[i][2] # path[i + 2][2] - path[i + 1][2]

is_turn(path, i) ==
    LET prev_dx == path[i + 1][1] - path[i][1]
        prev_dy == path[i + 1][2] - path[i][2]
        curr_dx == path[i + 2][1] - path[i + 1][1]
        curr_dy == path[i + 2][2] - path[i + 1][2]
    IN \/ prev_dx # 0 /\ curr_dx = 0
       \/ prev_dy # 0 /\ curr_dy = 0
       \/ prev_dx = 0 /\ curr_dx # 0
       \/ prev_dy = 0 /\ curr_dy # 0

RECURSIVE total_length(_, _)
total_length(path, i) ==
    IF i >= Len(path) THEN 0
    ELSE segment_length(path[i + 1][1] - path[i][1], path[i + 1][2] - path[i][2])
         + total_length(path, i + 1)

\* get_routing_statistics; 'length' is round(total_length, 2) in hundredths.
get_routing_statistics(path) ==
    IF Len(path) < 2
    THEN [length |-> 0, segments |-> 0, turns |-> 0]
    ELSE [length |-> (total_length(path, 1) + 5000) \div 10000,
          segments |-> Len(path) - 1,
          turns |-> Cardinality({i \in 1..(Len(path) - 2) : is_turn(path, i)}),
          waypoints |-> Len(path)]

\* ------------------------------------------------------------------ inputs
ImageShape == <<Height, Width>>

\* Binarized images with at most MaxInk dark cells.
Images ==
    {[shape |-> ImageShape,
      data |-> [r \in 1..Height |-> [c \in 1..Width |->
                   IF <<r - 1, c - 1>> \in ink THEN OBSTACLE ELSE FREE]]] :
        ink \in {S \in SUBSET Cells(ImageShape) : Cardinality(S) <= MaxInk}}

DilationSizes == 1..MaxDilation

SafetyPaddings == 0..MaxPadding

\* The cells of the grid and the ring of out-of-range points around it.
Points == (-1..Width) \X (-1..Height)

GridPoints == (0..(Width - 1)) \X (0..(Height - 1))

Styles == {"manhattan", "astar"}

\* The wire ends the Router is asked to connect: three corners of the image
\* and a point beside it.
Terminals == {<<0, 0>>, <<Width - 1, 0>>, <<Width - 1, Height - 1>>, <<-1, 0>>}

\* The points a caller-given path is made of.
PathPoints == GridPoints \cup {<<-1, 0>>}

\* The obstacle maps the builder can return.
Grids ==
    {create_obstacle_map(image, d, p).map :
        image \in Images, d \in DilationSizes, p \in SafetyPaddings}

\* ------------------------------------------------------------------ state
VARIABLES
    use_generic_detection,  \* SmartWireRouter.use_generic_detection
    current_obstacle_map,   \* SmartWireRouter.current_obstacle_map, or None
    analyzed,               \* history: some analyze_circuit call has returned
    op,                     \* the last call
    args,                   \* its arguments
    error,                  \* the exception it raised, or "none"
    ret,                    \* the value it returned
    heap,                   \* the arrays allocated so far, by object id (from 1)
    map_ref,                \* the object current_obstacle_map refers to, 0 for None
    route_call,             \* the locals of a route_wire call in progress
    analyze_call,           \* the locals of an analyze_circuit call in progress
    a_star_call             \* the locals of an a_star call in progress

vars == <<use_generic_detection, current_obstacle_map, analyzed, op, args, error, ret,
          heap, map_ref, route_call, analyze_call, a_star_call>>

router == <<use_generic_detection, current_obstacle_map, analyzed>>

\* The calls in progress and the objects they share; the specifications that
\* run each call in one step leave them as they are.
in_progress == <<heap, map_ref, route_call, analyze_call, a_star_call>>

Idle == [pc |-> "idle"]

NoCallInProgress ==
    /\ heap = <<>>
    /\ map_ref = 0
    /\ route_call = Idle
    /\ analyze_call = Idle
    /\ a_star_call = Idle

Returned(name, arguments, value) ==
    /\ op' = name
    /\ args' = arguments
    /\ error' = "none"
    /\ ret' = value
    /\ UNCHANGED in_progress

\* ------------------------------------------------------- the Router's life
Init ==
    /\ use_generic_detection \in BOOLEAN
    /\ current_obstacle_map = None
    /\ analyzed = FALSE
    /\ op = "init"
    /\ args = <<>>
    /\ error = "none"
    /\ ret = <<>>
    /\ NoCallInProgress

AnalyzeCircuit ==
    /\ \E image \in Images \cup MalformedImages, d \in DilationSizes, p \in SafetyPaddings :
         \E r \in {analyze_circuit(use_generic_detection, current_obstacle_map,
                                    image, d, p)} :
            /\ current_obstacle_map' = r.map
            /\ analyzed' = (analyzed \/ r.error = "none")
            /\ op' = "analyze_circuit"
            /\ args' = <<image, d, p>>
            /\ error' = r.error
            /\ ret' = r.result
    /\ UNCHANGED <<use_generic_detection, in_progress>>

\* A route_wire that keeps clear of the wire the call before it returned.
RouteWireOverAvoidingLast(points) ==
    /\ \E start \in points, goal \in points, style \in Styles :
         \E map \in {IF current_obstacle_map # None /\ op = "route_wire"
                     THEN [current_obstacle_map EXCEPT !.data =
                             [y \in 1..Len(@) |->
                                [x \in 1..Len(@[y]) |->
                                   IF \E i \in 1..Len(ret) : ret[i] = <<x - 1, y - 1>>
                                   THEN OBSTACLE ELSE @[y][x]]]]
                     ELSE current_obstacle_map} :
         \E r \in {route_wire(map, start, goal, style)} :
            /\ op' = "route_wire"
            /\ args' = <<start, goal, style>>
            /\ error' = r.error
            /\ ret' = r.path
    /\ UNCHANGED <<router, in_progress>>

RouteWireOver(points) ==
    /\ \E start \in points, goal \in points, style \in Styles :
         \E r \in {route_wire(current_obstacle_map, start, goal, style)} :
            /\ op' = "route_wire"
            /\ args' = <<start, goal, style>>
            /\ error' = r.error
            /\ ret' = r.path
    /\ UNCHANGED <<router, in_progress>>

RouteWire == RouteWireOver(Terminals)

\* The callers pass the path route_wire returned.
GetRoutingStatistics ==
    /\ op = "route_wire" /\ error = "none"
    /\ Returned("get_routing_statistics", <<ret>>, get_routing_statistics(ret))
    /\ UNCHANGED router

Next == AnalyzeCircuit \/ RouteWire \/ GetRoutingStatistics

Spec == Init /\ [][Next]_vars

\* ---------------------------------------- one search on a PathFinder's grid
PathInit ==
    /\ use_generic_detection = TRUE
    /\ current_obstacle_map \in Grids
    /\ analyzed = TRUE
    /\ op = "init"
    /\ args = <<>>
    /\ error = "none"
    /\ ret = <<>>
    /\ NoCallInProgress

AStar ==
    /\ op = "init"
    /\ \E start \in Points, goal \in Points :
         Returned("a_star", <<start, goal>>,
                  a_star(PathFinder(current_obstacle_map), start, goal))
    /\ UNCHANGED router

ManhattanRouting ==
    /\ op = "init"
    /\ \E start \in Points, goal \in Points :
         Returned("manhattan_routing", <<start, goal>>,
                  manhattan_routing(PathFinder(current_obstacle_map), start, goal))
    /\ UNCHANGED router

FindBestPath ==
    /\ op = "init"
    /\ \E start \in Points, goal \in Points, prefer_manhattan \in BOOLEAN :
         Returned("find_best_path", <<start, goal, prefer_manhattan>>,
                  find_best_path(PathFinder(current_obstacle_map), start, goal,
                                 prefer_manhattan))
    /\ UNCHANGED router

RouteWireOnce == op = "init" /\ RouteWireOver(Points)

PathNext == AStar \/ ManhattanRouting \/ FindBestPath \/ RouteWireOnce

PathSpec == PathInit /\ [][PathNext]_vars

\* ------------------------------------ simplification of a caller-given path
Paths == UNION {[1..n -> PathPoints] : n \in 0..MaxPathLen}

OptimizePath ==
    /\ op = "init"
    /\ \E path \in Paths :
         Returned("optimize_path", <<path>>,
                  optimize_path(PathFinder(current_obstacle_map), path))
    /\ UNCHANGED router

CanConnectDirectly ==
    /\ op = "init"
    /\ \E start \in Points, end \in Points :
         Returned("can_connect_directly", <<start, end>>,
                  can_connect_directly(PathFinder(current_obstacle_map), start, end))
    /\ UNCHANGED router

OptNext == OptimizePath \/ CanConnectDirectly

OptSpec == PathInit /\ [][OptNext]_vars

\* ------------------------------------------- one line-of-sight query on a grid
\* The detector's obstacle_map is the map it built for the Router.
CheckPathClearance ==
    /\ op = "init"
    /\ \E start \in Points, end \in Points :
         Returned("check_path_clearance", <<start, end>>,
                  check_path_clearance(current_obstacle_map, start, end))
    /\ UNCHANGED router

LineNext == CanConnectDirectly \/ CheckPathClearance

LineSpec == PathInit /\ [][LineNext]_vars

\* ------------------------------------------- statistics of a caller-given path
GetStatisticsOfPath ==
    /\ op = "init"
    /\ \E path \in Paths :
         Returned("get_routing_statistics", <<path>>, get_routing_statistics(path))
    /\ UNCHANGED router

StatsNext == GetStatisticsOfPath

StatsSpec == Init /\ [][StatsNext]_vars

\* --------------------------------------------- one call of the map builder
\* The dilation sizes a caller of the builder may pass, 0 included.
BuilderDilationSizes == 0..MaxDilation

CreateObstacleMap ==
    /\ op = "init"
    /\ \E image \in Images \cup MalformedImages, d \in BuilderDilationSizes,
          p \in SafetyPaddings :
         \E r \in {create_obstacle_map(image, d, p)} :
            /\ op' = "create_obstacle_map"
            /\ args' = <<image, d, p>>
            /\ error' = r.error
            /\ ret' = r.map
    /\ UNCHANGED <<router, in_progress>>

BuildNext == CreateObstacleMap

BuildSpec == Init /\ [][BuildNext]_vars

\* ------------------------- analyze_circuit and route_wire, statement by statement
\* An assignment that writes the new cells into the array already referred to.
install_in_place(objects, ref, built) ==
    IF ref = 0
    THEN [heap |-> Append(objects, built), ref |-> Len(objects) + 1]
    ELSE [heap |-> [objects EXCEPT ![ref] = built], ref |-> ref]

\* self.current_obstacle_map = <the array the builder returned>: the array is
\* a new object and the attribute is bound to it.
install(objects, ref, built) ==
    [heap |-> Append(objects, built), ref |-> Len(objects) + 1]

\* The images analysed while a route is in progress: at most one dark cell.
SketchImages == {image \in Images : count_nonzero(image) <= 1}

\* The wires asked for while an analysis is in progress.
Requests ==
    {<<0, 0>>} \X {<<Width - 1, Height - 1>>, <<Width - 1, 0>>} \X Styles

ConcInit ==
    /\ use_generic_detection = TRUE
    /\ current_obstacle_map = None
    /\ analyzed = FALSE
    /\ op = "init"
    /\ args = <<>>
    /\ error = "none"
    /\ ret = <<>>
    /\ NoCallInProgress

\* route_wire, "if self.current_obstacle_map is None: raise ValueError".
RouteCheck ==
    /\ route_call = Idle
    /\ \E request \in Requests :
         IF map_ref = 0
         THEN /\ op' = "route_wire"
              /\ args' = request
              /\ error' = "ValueError"
              /\ ret' = <<>>
              /\ UNCHANGED route_call
         ELSE /\ route_call' = [pc |-> "checked", request |-> request]
              /\ UNCHANGED <<op, args, error, ret>>
    /\ UNCHANGED <<router, heap, map_ref, analyze_call, a_star_call>>

\* "pathfinder = PathFinder(self.current_obstacle_map)": the PathFinder keeps
\* the object the attribute refers to now; seen records its cells.
RouteBind ==
    /\ route_call.pc = "checked"
    /\ route_call' = [pc |-> "bound", request |-> route_call.request,
                      pathfinder |-> map_ref, seen |-> heap[map_ref]]
    /\ UNCHANGED <<router, op, args, error, ret, heap, map_ref, analyze_call, a_star_call>>

\* A search that marks the start cell as taken in the PathFinder's array.
RouteSearchMarking ==
    /\ route_call.pc = "bound"
    /\ route_call' = [pc |-> "searched", request |-> route_call.request,
                      pathfinder |-> route_call.pathfinder,
                      seen |-> route_call.seen,
                      path |-> route_search(heap[route_call.pathfinder],
                                            route_call.request[1],
                                            route_call.request[2],
                                            route_call.request[3])]
    /\ heap' = [heap EXCEPT ![route_call.pathfinder].data[1][1] = OBSTACLE]
    /\ current_obstacle_map' = heap'[map_ref]
    /\ UNCHANGED <<use_generic_detection, analyzed, op, args, error, ret,
                   map_ref, analyze_call, a_star_call>>

\* The search reads the PathFinder's object.
RouteSearch ==
    /\ route_call.pc = "bound"
    /\ route_call' = [pc |-> "searched", request |-> route_call.request,
                      pathfinder |-> route_call.pathfinder,
                      seen |-> route_call.seen,
                      path |-> route_search(heap[route_call.pathfinder],
                                            route_call.request[1],
                                            route_call.request[2],
                                            route_call.request[3])]
    /\ UNCHANGED <<router, op, args, error, ret, heap, map_ref, analyze_call, a_star_call>>

\* The optimization reads the PathFinder's object again; route_wire returns.
RouteOptimize ==
    /\ route_call.pc = "searched"
    /\ op' = "route_wire"
    /\ args' = route_call.request
    /\ error' = "none"
    /\ ret' = route_optimize(heap[route_call.pathfinder], route_call.path)
    /\ route_call' = Idle
    /\ UNCHANGED <<router, heap, map_ref, analyze_call, a_star_call>>

\* analyze_circuit, the right-hand side of its assignment: the builder runs to
\* its end and returns a new array, or raises.
AnalyzeBuild ==
    /\ analyze_call = Idle
    /\ Len(heap) < MaxObjects
    /\ \E image \in SketchImages \cup MalformedImages :
         \E built \in {create_obstacle_map(image, 1, 0)} :
            IF built.error # "none"
            THEN /\ op' = "analyze_circuit"
                 /\ args' = <<image, 1, 0>>
                 /\ error' = built.error
                 /\ ret' = <<>>
                 /\ UNCHANGED analyze_call
            ELSE /\ analyze_call' = [pc |-> "built", image |-> image,
                                     built |-> built.map]
                 /\ UNCHANGED <<op, args, error, ret>>
    /\ UNCHANGED <<router, heap, map_ref, route_call, a_star_call>>

\* The assignment itself.
AnalyzeInstall ==
    /\ analyze_call.pc = "built"
    /\ \E r \in {install(heap, map_ref, analyze_call.built)} :
         /\ heap' = r.heap
         /\ map_ref' = r.ref
         /\ current_obstacle_map' = r.heap[r.ref]
    /\ analyzed' = TRUE
    /\ analyze_call' = [analyze_call EXCEPT !.pc = "installed"]
    /\ UNCHANGED <<use_generic_detection, op, args, error, ret, route_call, a_star_call>>

\* The counts are taken from the attribute and analyze_circuit returns.
AnalyzeReturn ==
    /\ analyze_call.pc = "installed"
    /\ op' = "analyze_circuit"
    /\ args' = <<analyze_call.image, 1, 0>>
    /\ error' = "none"
    /\ ret' = [method |-> "generic",
               obstacle_pixels |-> count_nonzero(heap[map_ref]),
               free_pixels |-> count_zero(heap[map_ref]),
               coverage |-> coverage(count_nonzero(heap[map_ref]),
                                     count_zero(heap[map_ref]))]
    /\ analyze_call' = Idle
    /\ UNCHANGED <<router, heap, map_ref, route_call, a_star_call>>

ConcNext ==
    \/ RouteCheck \/ RouteBind \/ RouteSearch \/ RouteOptimize
    \/ GetRoutingStatistics
    \/ AnalyzeBuild \/ AnalyzeInstall \/ AnalyzeReturn

ConcSpec == ConcInit /\ [][ConcNext]_vars

\* ------------------------------------------- a_star, one iteration per step
\* "open_set = []; heappush(open_set, (0, start)); came_from = {};
\*  g_score = {start: 0}".
AStarEnter ==
    /\ op = "init"
    /\ a_star_call = Idle
    /\ \E start \in Points, goal \in Points :
         a_star_call' = [pc |-> "loop", start |-> start, goal |-> goal,
                         st |-> [open_set |-> << <<0, start>> >>,
                                 came_from |-> <<>>,
                                 g_score |-> (start :> 0)]]
    /\ UNCHANGED <<router, op, args, error, ret, heap, map_ref, route_call, analyze_call>>

\* One iteration of "while open_set": the pop, the goal test, the relaxation
\* of the neighbours.
AStarIterate ==
    /\ a_star_call.pc = "loop"
    /\ a_star_call.st.open_set # <<>>
    /\ \E i \in {HeapMinIndex(a_star_call.st.open_set)} :
       \E current \in {a_star_call.st.open_set[i][2]} :
       \E popped \in {[a_star_call.st EXCEPT !.open_set = RemoveAt(a_star_call.st.open_set, i)]} :
       \E neighbors \in {get_neighbors(PathFinder(current_obstacle_map), current)} :
       \E next \in {IF current = a_star_call.goal
                    THEN [pc |-> "walk", start |-> a_star_call.start,
                          goal |-> a_star_call.goal,
                          st |-> popped, current |-> current, path |-> <<>>]
                    ELSE [a_star_call EXCEPT !.st =
                            a_star_relax(neighbors, current, a_star_call.goal, popped)]} :
           a_star_call' = next
    /\ UNCHANGED <<router, op, args, error, ret, heap, map_ref, route_call, analyze_call>>

\* "return []" once the frontier is empty.
AStarExhausted ==
    /\ a_star_call.pc = "loop"
    /\ a_star_call.st.open_set = <<>>
    /\ op' = "a_star"
    /\ args' = <<a_star_call.start, a_star_call.goal>>
    /\ error' = "none"
    /\ ret' = <<>>
    /\ a_star_call' = Idle
    /\ UNCHANGED <<router, heap, map_ref, route_call, analyze_call>>

\* One iteration of "while current in came_from".
AStarWalkBack ==
    /\ a_star_call.pc = "walk"
    /\ a_star_call.current \in DOMAIN a_star_call.st.came_from
    /\ a_star_call' = [a_star_call EXCEPT
                         !.path = Append(@, a_star_call.current),
                         !.current = a_star_call.st.came_from[a_star_call.current]]
    /\ UNCHANGED <<router, op, args, error, ret, heap, map_ref, route_call, analyze_call>>

\* "path.append(start); return path[::-1]".
AStarReturn ==
    /\ a_star_call.pc = "walk"
    /\ a_star_call.current \notin DOMAIN a_star_call.st.came_from
    /\ op' = "a_star"
    /\ args' = <<a_star_call.start, a_star_call.goal>>
    /\ error' = "none"
    /\ ret' = Reverse(Append(a_star_call.path, a_star_call.start))
    /\ a_star_call' = Idle
    /\ UNCHANGED <<router, heap, map_ref, route_call, analyze_call>>

StepNext == AStarEnter \/ AStarIterate \/ AStarExhausted \/ AStarWalkBack \/ AStarReturn

\* The call runs on the caller's thread to its return: a step that can be
\* taken is taken.
StepSpec == PathInit /\ [][StepNext]_vars /\ WF_vars(StepNext)

\* ------------------------------------------------------------------ claims
\* What the claims speak of, stated without the search code.
FreeAt(map, p) ==
    /\ 0 <= p[1] /\ p[1] < map.shape[2]
    /\ 0 <= p[2] /\ p[2] < map.shape[1]
    /\ At(map, p[2], p[1]) = FREE

OutOfRange(map, p) ==
    \/ p[1] < 0 \/ p[1] >= map.shape[2]
    \/ p[2] < 0 \/ p[2] >= map.shape[1]

ObstacleAt(map, p) == ~OutOfRange(map, p) /\ At(map, p[2], p[1]) = OBSTACLE

SingleStep(a, b) == a # b /\ Abs(a[1] - b[1]) <= 1 /\ Abs(a[2] - b[2]) <= 1

\* The points reachable from those of S by single steps landing on FREE cells.
RECURSIVE ReachableFrom(_, _)
ReachableFrom(map, S) ==
    LET T == S \cup {n \in GridPoints :
                        FreeAt(map, n) /\ \E q \in S : SingleStep(q, n)}
    IN IF T = S THEN S ELSE ReachableFrom(map, T)

Reachable(map, start, goal) == goal \in ReachableFrom(map, {start})

\* A route over FREE in-range cells, its two ends included.
FreeRoute(map, start, goal) ==
    FreeAt(map, start) /\ FreeAt(map, goal) /\ Reachable(map, start, goal)

AllFree(map) == \A p \in GridPoints : FreeAt(map, p)

pathfinder == PathFinder(current_obstacle_map)

\* C1: route_wire on a Router on which no analyze_circuit has succeeded raises
\* the "not analyzed" ValueError and returns no path; once some analyze_circuit
\* has succeeded, route_wire never raises it.
C1_NotAnalyzedError ==
    op = "route_wire" =>
        /\ (error = "ValueError") <=> ~analyzed
        /\ error = "ValueError" => ret = <<>>

\* A route_wire call refused on a Router whose analyze_circuit has been tried
\* and has failed.
C1_Witness ==
    /\ op = "route_wire" /\ error = "ValueError"
    /\ ~use_generic_detection /\ ~analyzed

\* C2: when goal is reachable from start by single steps landing on FREE
\* in-range cells, find_best_path, with or without prefer_manhattan, returns a
\* non-empty path from start to goal.
C2_ReachableFound ==
    (op = "find_best_path" /\ Reachable(current_obstacle_map, args[1], args[2])) =>
        /\ ret # <<>>
        /\ ret[1] = args[1]
        /\ Last(ret) = args[2]

\* find_best_path with prefer_manhattan, both elbows blocked, the goal reached
\* around an obstacle.
C2_Witness ==
    /\ op = "find_best_path" /\ args[3]
    /\ Reachable(current_obstacle_map, args[1], args[2])
    /\ ~Truthy(route_horizontal_first(pathfinder, args[1], args[2]))
    /\ ~Truthy(route_vertical_first(pathfinder, args[1], args[2]))
    /\ Len(ret) >= 3

\* C3: when there is no route from start to goal over FREE in-range cells
\* (start or goal OBSTACLE or out of range, start = goal included), a_star and
\* route_wire return the empty path and raise nothing.
C3_NoRouteIsEmpty ==
    (op \in {"a_star", "route_wire"}
       /\ ~FreeRoute(current_obstacle_map, args[1], args[2])) =>
        error = "none" /\ ret = <<>>

\* C4: no point of a path returned by manhattan_routing is a cell marked
\* OBSTACLE, the first and the last point included.
C4_ManhattanAvoidsObstacles ==
    op = "manhattan_routing" =>
        \A i \in 1..Len(ret) : ~ObstacleAt(current_obstacle_map, ret[i])

\* C5: manhattan_routing returns the empty path when neither elbow validates,
\* and any path it returns is one of the two elbow candidates.
C5_ManhattanOnlyElbows ==
    op = "manhattan_routing" =>
        LET route1 == route_horizontal_first(pathfinder, args[1], args[2])
            route2 == route_vertical_first(pathfinder, args[1], args[2])
        IN /\ (~Truthy(route1) /\ ~Truthy(route2)) => ret = <<>>
           /\ ret # <<>> => \/ Truthy(route1) /\ ret = route1.path
                            \/ Truthy(route2) /\ ret = route2.path

\* C6: every consecutive pair of points in the output of optimize_path has a
\* clear line of sight on the PathFinder's grid.
C6_OptimizedLineOfSight ==
    op = "optimize_path" =>
        \A i \in 1..(Len(ret) - 1) :
            can_connect_directly(pathfinder, ret[i], ret[i + 1])

\* C7: optimize_path is idempotent on a fixed grid.
C7_OptimizeIdempotent ==
    op = "optimize_path" => optimize_path(pathfinder, ret) = ret

\* C8: on an all-FREE grid, for in-range start and goal that differ in both x
\* and y, the path route_wire returns with style manhattan has exactly one turn
\* in get_routing_statistics.
C8_ManhattanSingleElbow ==
    (op = "route_wire" /\ args[3] = "manhattan"
       /\ AllFree(current_obstacle_map)
       /\ args[1] \in GridPoints /\ args[2] \in GridPoints
       /\ args[1][1] # args[2][1] /\ args[1][2] # args[2][2]) =>
        get_routing_statistics(ret).turns = 1

\* C9: for FREE in-range start and goal with goal reachable from start,
\* route_wire with style astar returns a non-empty path every point of which
\* is a FREE in-range cell.
C9_AStarPathFree ==
    (op = "route_wire" /\ args[3] = "astar"
       /\ FreeRoute(current_obstacle_map, args[1], args[2])) =>
        /\ ret # <<>>
        /\ \A i \in 1..Len(ret) : FreeAt(current_obstacle_map, ret[i])

\* An astar route that bends around an obstacle.
C9_Witness ==
    /\ op = "route_wire" /\ args[3] = "astar"
    /\ FreeRoute(current_obstacle_map, args[1], args[2])
    /\ ~AllFree(current_obstacle_map)
    /\ Len(ret) >= 3

\* C10: for a non-empty input path, the output of optimize_path starts at
\* path[0], ends at path[last] and has no more waypoints than the input.
C10_OptimizeKeepsEnds ==
    (op = "optimize_path" /\ args[1] # <<>>) =>
        /\ ret[1] = args[1][1]
        /\ Last(ret) = Last(args[1])
        /\ Len(ret) <= Len(args[1])

\* A path of four points that optimize_path shortens.
C10_Witness ==
    /\ op = "optimize_path"
    /\ Len(args[1]) = MaxPathLen
    /\ Len(ret) < Len(args[1])
    /\ Len(ret) >= 3

\* C11: optimize_path returns a path of 0, 1 or 2 points exactly as given,
\* whatever the grid holds.
C11_ShortPathUntouched ==
    (op = "optimize_path" /\ Len(args[1]) < 3) => ret = args[1]

\* A two-point path without line of sight, returned as given.
C11_Witness ==
    /\ op = "optimize_path" /\ Len(args[1]) = 2
    /\ ~can_connect_directly(pathfinder, args[1][1], args[1][2])
    /\ ret = args[1]

Max(a, b) == IF a > b THEN a ELSE b

\* A digital line from a to b: it starts at a, ends at b, moves by single
\* steps and has one cell per unit of the longer extent.
IsDigitalLine(cells, a, b) ==
    /\ cells[1] = a /\ Last(cells) = b
    /\ Len(cells) = Max(Abs(b[1] - a[1]), Abs(b[2] - a[2])) + 1
    /\ \A i \in 1..(Len(cells) - 1) : SingleStep(cells[i], cells[i + 1])

\* C12: _can_connect_directly(a, b) is true exactly when every cell of the
\* digital line walked from a to b, a and b included, is in range and FREE;
\* for a = b it is true exactly when a is a FREE in-range cell.
C12_LineOfSightIffAllFree ==
    op = "can_connect_directly" =>
        LET cells == digital_line(args[1], args[2])
        IN /\ IsDigitalLine(cells, args[1], args[2])
           /\ ret <=> \A i \in 1..Len(cells) : FreeAt(current_obstacle_map, cells[i])
           /\ args[1] = args[2] => (ret <=> FreeAt(current_obstacle_map, args[1]))

\* A line whose only blocked cell is its far end.
C12_Witness ==
    /\ op = "can_connect_directly" /\ ~ret
    /\ LET cells == digital_line(args[1], args[2])
       IN /\ Len(cells) >= 3
          /\ ObstacleAt(current_obstacle_map, args[2])
          /\ \A i \in 1..(Len(cells) - 1) : FreeAt(current_obstacle_map, cells[i])

\* C13: a line-of-sight query with an endpoint or a sampled cell outside the
\* grid answers false and raises nothing, in _can_connect_directly and in
\* check_path_clearance alike.
C13_OutOfRangeBlocksSight ==
    (op \in {"can_connect_directly", "check_path_clearance"}
       /\ \E i \in 1..Len(digital_line(args[1], args[2])) :
             OutOfRange(current_obstacle_map, digital_line(args[1], args[2])[i])) =>
        error = "none" /\ ret = FALSE

\* C14: a search query with start or goal outside the grid raises nothing and
\* returns no path holding an out-of-range point, in a_star, manhattan_routing
\* and find_best_path.
C14_SearchRejectsOutOfRange ==
    (op \in {"a_star", "manhattan_routing", "find_best_path"}
       /\ (OutOfRange(current_obstacle_map, args[1])
             \/ OutOfRange(current_obstacle_map, args[2]))) =>
        /\ error = "none"
        /\ \A i \in 1..Len(ret) : ~OutOfRange(current_obstacle_map, ret[i])

\* C15: route_wire(start, goal, style) returns the path find_best_path returns
\* with prefer_manhattan = (style = manhattan) on a PathFinder over the
\* Router's map; with style astar that is the optimized a_star path alone.
C15_RouteWireIsFindBestPath ==
    op = "route_wire" =>
        /\ error = "none"
        /\ ret = find_best_path(pathfinder, args[1], args[2], args[3] = "manhattan")
        /\ args[3] = "astar" =>
              LET path == a_star(pathfinder, args[1], args[2])
              IN ret = IF path # <<>> THEN optimize_path(pathfinder, path) ELSE path

\* A manhattan request answered by an elbow that the optimization shortened.
C15_Witness ==
    /\ op = "route_wire" /\ args[3] = "manhattan"
    /\ ret # <<>>
    /\ ret # manhattan_routing(pathfinder, args[1], args[2])
    /\ ret # a_star(pathfinder, args[1], args[2])

\* C16: the Router holds one grid, the one the most recent successful
\* analyze_circuit built from its own arguments; every other call leaves it
\* as it is, and route_wire is answered against it alone.
C16_OneCurrentGrid ==
    [][/\ (op' = "analyze_circuit" /\ error' = "none") =>
             current_obstacle_map' =
                 create_obstacle_map(args'[1], args'[2], args'[3]).map
       /\ ~(op' = "analyze_circuit" /\ error' = "none") =>
             current_obstacle_map' = current_obstacle_map
       /\ (op' = "route_wire" /\ error' = "none") =>
             ret' = find_best_path(PathFinder(current_obstacle_map),
                                   args'[1], args'[2], args'[3] = "manhattan")]_vars

\* An analyze_circuit that failed on a Router holding a grid, which it keeps.
C16_Witness ==
    /\ op = "analyze_circuit" /\ error # "none"
    /\ analyzed /\ current_obstacle_map # None
    /\ ~AllFree(current_obstacle_map)

\* C17: the result of a successful analyze_circuit counts every cell of the
\* image once, as obstacle or as free: obstacle_pixels + free_pixels is width
\* times height, and coverage is 100 * obstacle_pixels over that sum, rounded
\* to hundredths.
C17_CountsCoverImage ==
    (op = "analyze_circuit" /\ error = "none") =>
        LET obstacle_pixels == ret.obstacle_pixels
            free_pixels == ret.free_pixels
            total == args[1].shape[1] * args[1].shape[2]
        IN /\ obstacle_pixels + free_pixels = total
           /\ obstacle_pixels =
                 Cardinality({p \in GridPoints : ObstacleAt(current_obstacle_map, p)})
           /\ free_pixels =
                 Cardinality({p \in GridPoints : FreeAt(current_obstacle_map, p)})
           /\ 2 * Abs(ret.coverage * total - 10000 * obstacle_pixels) <= total

\* An analysis that found both obstacle and free cells.
C17_Witness ==
    /\ op = "analyze_circuit" /\ error = "none"
    /\ ret.obstacle_pixels > 0 /\ ret.free_pixels > 0

\* C18: get_routing_statistics returns for every path the four statistics
\* length, segments, turns and waypoints, with segments = waypoints - 1 for a
\* path of two or more points and every statistic zero for a shorter one.
C18_FourStatistics ==
    op = "get_routing_statistics" =>
        /\ DOMAIN ret = {"length", "segments", "turns", "waypoints"}
        /\ Len(args[1]) >= 2 => ret.segments = ret.waypoints - 1
        /\ Len(args[1]) < 2 => \A k \in DOMAIN ret : ret[k] = 0

\* The x and y deltas of segment k of a path, k counted from 1.
Delta(path, k) == <<path[k + 1][1] - path[k][1], path[k + 1][2] - path[k][2]>>

\* Between segments k and k + 1 a delta changes between zero and non-zero.
ZeroStatusChanges(path, k) ==
    \/ (Delta(path, k)[1] = 0) # (Delta(path, k + 1)[1] = 0)
    \/ (Delta(path, k)[2] = 0) # (Delta(path, k + 1)[2] = 0)

C20_ZeroDilationIsNoOp ==
    (op = "create_obstacle_map" /\ args[1] \in Images /\ args[2] = 0) =>
        /\ error = "none"
        /\ ret = IF args[3] > 0 THEN dilate(args[1], 2 * args[3] + 1) ELSE args[1]

C22_OneGridPerQuery ==
    [][/\ \A id \in DOMAIN heap : heap'[id] = heap[id]
       /\ route_call'.pc \in {"bound", "searched"} =>
             /\ heap'[route_call'.pathfinder] = route_call'.seen
             /\ \E image \in SketchImages :
                   route_call'.seen = create_obstacle_map(image, 1, 0).map
       /\ (route_call.pc = "searched" /\ route_call'.pc = "idle") =>
             ret' = route_path(route_call.seen, route_call.request[1],
                               route_call.request[2], route_call.request[3])]_vars

\* A route that returns a path over the grid it was bound to after the Router
\* has been given another one.
C22_Witness ==
    /\ op = "route_wire" /\ error = "none" /\ ret # <<>>
    /\ route_call = Idle
    /\ Len(heap) = 2 /\ map_ref = 2
    /\ heap[1] # heap[2]
    /\ ret = route_path(heap[1], args[1], args[2], args[3])
    /\ ret # route_path(heap[2], args[1], args[2], args[3])

\* C23: no step of route_wire (its search by manhattan_routing and a_star, its
\* optimization with the line-of-sight test) and no get_routing_statistics
\* changes a cell or the shape of any grid, or the grid the Router refers to:
\* only a step of analyze_circuit does.
C23_QueriesLeaveGridsAlone ==
    [][analyze_call' = analyze_call =>
          /\ heap' = heap
          /\ map_ref' = map_ref
          /\ current_obstacle_map' = current_obstacle_map]_vars

\* Statistics taken of a path with a turn, found on a grid holding an obstacle
\* that is still the Router's.
C23_Witness ==
    /\ op = "get_routing_statistics" /\ ret.turns >= 1
    /\ map_ref # 0 /\ heap[map_ref] = current_obstacle_map
    /\ ~AllFree(current_obstacle_map)

\* C24: in a path returned by a_star or manhattan_routing every two consecutive
\* points are one grid move apart (at most 1 in x and in y, not equal) and every
\* point after the first is FREE and in range; when an L-route validates, the
\* path of manhattan_routing has only horizontal and vertical unit moves and
\* exactly |dx| + |dy| + 1 points.
C24_RawPathsAreStepwise ==
    /\ op \in {"a_star", "manhattan_routing"} =>
          \A i \in 1..(Len(ret) - 1) :
              /\ SingleStep(ret[i], ret[i + 1])
              /\ FreeAt(current_obstacle_map, ret[i + 1])
    /\ (/\ op = "manhattan_routing"
        /\ \/ Truthy(route_horizontal_first(pathfinder, args[1], args[2]))
           \/ Truthy(route_vertical_first(pathfinder, args[1], args[2]))) =>
          /\ \A i \in 1..(Len(ret) - 1) :
                 Abs(ret[i + 1][1] - ret[i][1]) + Abs(ret[i + 1][2] - ret[i][2]) = 1
          /\ Len(ret) = Abs(args[2][1] - args[1][1]) + Abs(args[2][2] - args[1][2]) + 1

\* An L-route with a corner, taken on a grid where the other L-route is blocked.
C24_Witness ==
    /\ op = "manhattan_routing" /\ Len(ret) = Width + Height - 1
    /\ Truthy(route_horizontal_first(pathfinder, args[1], args[2]))
    /\ ~Truthy(route_vertical_first(pathfinder, args[1], args[2]))

\* C25: every a_star call returns, whatever the grid, start and goal. A cell is
\* pushed again only with a better score, so no entry is in the frontier twice;
\* the loop ends with the frontier empty or goal popped, and the walk over the
\* parent links ends at start: a returned path runs from start to goal.
C25_AStarTerminates ==
    /\ [][/\ a_star_call'.pc = "loop" =>
                \A i, j \in 1..Len(a_star_call'.st.open_set) :
                    a_star_call'.st.open_set[i] = a_star_call'.st.open_set[j] => i = j
          /\ a_star_call'.pc # "idle" =>
                a_star_call'.start \notin DOMAIN a_star_call'.st.came_from
          /\ (op' = "a_star" /\ ret' # <<>>) =>
                (ret'[1] = args'[1] /\ Last(ret') = args'[2])]_vars
    /\ (a_star_call.pc # "idle") ~> (a_star_call.pc = "idle" /\ op = "a_star")

\* A cell is in the frontier twice, with two scores, in a search for a goal
\* out of range.
C25_Witness ==
    /\ a_star_call.pc = "loop"
    /\ OutOfRange(current_obstacle_map, a_star_call.goal)
    /\ \E i, j \in 1..Len(a_star_call.st.open_set) :
          /\ i # j
          /\ a_star_call.st.open_set[i][2] = a_star_call.st.open_set[j][2]

C28_StylesAgreeOnRoutability ==
    (op = "route_wire" /\ error = "none") =>
        /\ (ret # <<>>) <=>
              (route_path(current_obstacle_map, args[1], args[2],
                          IF args[3] = "manhattan" THEN "astar" ELSE "manhattan") # <<>>)
        /\ Truthy(route_horizontal_first(pathfinder, args[1], args[2])) =>
              a_star(pathfinder, args[1], args[2]) # <<>>
        /\ Truthy(route_vertical_first(pathfinder, args[1], args[2])) =>
              a_star(pathfinder, args[1], args[2]) # <<>>

\* A manhattan request answered from a validated L-route with another path than
\* the astar style gives.
C28_Witness ==
    /\ op = "route_wire" /\ error = "none" /\ args[3] = "manhattan"
    /\ \/ Truthy(route_horizontal_first(pathfinder, args[1], args[2]))
       \/ Truthy(route_vertical_first(pathfinder, args[1], args[2]))
    /\ ret # <<>>
    /\ ret # route_path(current_obstacle_map, args[1], args[2], "astar")

\* C29: when an L-route validates, find_best_path with prefer_manhattan returns
\* at most 3 waypoints, from start to goal, for which get_routing_statistics
\* counts at most one turn; a middle waypoint lies on the second leg of the
\* L-route that manhattan_routing chose (the horizontal-first one when it
\* validates), the corner included.
C29_ElbowKeepsThreeWaypoints ==
    (/\ op = "find_best_path" /\ args[3]
     /\ \/ Truthy(route_horizontal_first(pathfinder, args[1], args[2]))
        \/ Truthy(route_vertical_first(pathfinder, args[1], args[2]))) =>
        LET x1 == args[1][1]
            y1 == args[1][2]
            x2 == args[2][1]
            y2 == args[2][2]
            horizontal_first ==
                Truthy(route_horizontal_first(pathfinder, args[1], args[2]))
            between(a, v, b) == (a <= v /\ v <= b) \/ (b <= v /\ v <= a)
        IN /\ 1 <= Len(ret) /\ Len(ret) <= 3
           /\ ret[1] = args[1] /\ Last(ret) = args[2]
           /\ get_routing_statistics(ret).turns <= 1
           /\ Len(ret) = 3 =>
                 IF horizontal_first
                 THEN ret[2][1] = x2 /\ between(y1, ret[2][2], y2)
                 ELSE ret[2][2] = y2 /\ between(x1, ret[2][1], x2)

\* A kept middle waypoint that is on the second leg beyond the corner.
C29_Witness ==
    /\ op = "find_best_path" /\ args[3]
    /\ Truthy(route_horizontal_first(pathfinder, args[1], args[2]))
    /\ Len(ret) = 3
    /\ ret[2][1] = args[2][1]
    /\ ret[2][2] # args[1][2]
    /\ args[1][1] # args[2][1]
    /\ get_routing_statistics(ret).turns = 1

\* s can be had from t by leaving elements out.
RECURSIVE IsSubsequence(_, _)
IsSubsequence(s, t) ==
    IF s = <<>> THEN TRUE
    ELSE IF t = <<>> THEN FALSE
    ELSE IF Head(s) = Head(t) THEN IsSubsequence(Tail(s), Tail(t))
    ELSE IsSubsequence(s, Tail(t))

\* C30: a non-empty path returned by a_star holds no cell twice, begins at
\* start and ends at goal, so start is only its first and goal only its last
\* element; what optimize_path makes of a searched path is that path with
\* points left out, in the same order.
C30_SimplePathsAndSubsequences ==
    /\ (op = "a_star" /\ ret # <<>>) =>
          /\ \A i, j \in 1..Len(ret) : ret[i] = ret[j] => i = j
          /\ ret[1] = args[1] /\ Last(ret) = args[2]
    /\ op = "find_best_path" =>
          LET raw == route_search(current_obstacle_map, args[1], args[2],
                                  IF args[3] THEN "manhattan" ELSE "astar")
          IN /\ ret = route_optimize(current_obstacle_map, raw)
             /\ IsSubsequence(ret, raw)

\* An a_star path of four cells or more from which optimize_path left points
\* out and kept a middle one.
C30_Witness ==
    /\ op = "find_best_path" /\ ~args[3]
    /\ Len(a_star(pathfinder, args[1], args[2])) >= 4
    /\ Len(ret) >= 3
    /\ Len(ret) < Len(a_star(pathfinder, args[1], args[2]))

====
